---- MODULE Spec2Model ----
(***************************************************************************)
(* Model of the Go adapter src/mapnik/mapnik.go over the mapnik C API.     *)
(*                                                                         *)
(* The adapter's own state is the local handle field of every Map object   *)
(* (Map.m) and of every Projection value (Projection.p).  The engine is    *)
(* foreign code: it is modelled as an environment that hands out fresh     *)
(* handles, keeps one last-error string per map context, answers every     *)
(* call with any status, and counts how often each handle is passed to a   *)
(* release entry point.  The variable last records the most recent adapter *)
(* operation: its arguments, the engine calls it made in order, the        *)
(* foreign buffers it obtained and freed, and what it returned.            *)
(*                                                                         *)
(* Go strings are byte sequences; a C string is a buffer ending in a 0     *)
(* byte that its reader follows up to the first 0 byte.  float64 values    *)
(* are drawn from a few integers (0 stands for 0.0).                       *)
(***************************************************************************)
EXTENDS Integers, Sequences, FiniteSets, TLC

VARIABLES
    initialized,   \* package initialization (func init) has run
    maps,          \* the Map objects NewMap allocated: their field m
    projs,         \* the callers' Projection variables: their field p
    nextHandle,    \* engine: the next fresh handle
    lastErr,       \* engine: the last-error C string of each map context
    relCount,      \* engine: times each handle reached a release entry point
    regLog,        \* engine: the registration calls received, in order
    explicitRegs,  \* calls of RegisterDatasources/RegisterFonts by callers
    last,          \* the most recent adapter operation
    pc,            \* concurrent use: where the operation in flight on each
                   \* Map object and Projection variable stands
    loc            \* concurrent use: the locals and the result of the
                   \* operation on each Map object

seqVars == <<initialized, maps, projs, nextHandle, lastErr, relCount,
             regLog, explicitRegs, last>>
concVars == <<pc, loc>>
vars == <<initialized, maps, projs, nextHandle, lastErr, relCount,
          regLog, explicitRegs, last, pc, loc>>

----------------------------------------------------------------------------
(* Bounds of the model. *)

MaxProjVars == 2
MaxHandles == 2
MaxRegs == 1

(* Every Map object holds a handle of its own, so there are no more Map   *)
(* objects than handles.                                                   *)
MapIds == 1..MaxHandles
ProjVars == 1..MaxProjVars
Handles == 1..MaxHandles

(* The null pointer (nil). *)
Nil == 0

----------------------------------------------------------------------------
(* Strings and the conversions across the foreign boundary. *)

(* "mapnik: " *)
Prefix == <<109, 97, 112, 110, 105, 107, 58, 32>>
(* "png8" *)
Png8 == <<112, 110, 103, 56>>
(* "Mapnik " *)
VersionPrefix == <<77, 97, 112, 110, 105, 107, 32>>

(* C.CString: a fresh buffer holding the bytes of s and a terminating 0. *)
CString(s) == s \o <<0>>

RECURSIVE CStr(_)
(* What the reader of a C string sees: the bytes before the first 0. *)
CStr(buf) ==
    IF buf = <<>> \/ Head(buf) = 0 THEN <<>>
    ELSE <<Head(buf)>> \o CStr(Tail(buf))

(* A char* the engine returns: NULL, or a 0-terminated buffer. *)
NullPtr == [null |-> TRUE, buf |-> <<>>]
Ptr(buf) == [null |-> FALSE, buf |-> buf]

(* C.GoString: the empty string for NULL, else a copy up to the first 0. *)
GoString(p) == IF p.null THEN <<>> ELSE CStr(p.buf)

(* A faulty C.GoBytes: nil for an empty blob. *)
GoBytes_nilOnEmpty(blob) ==
    IF blob.len = 0 THEN [nil |-> TRUE, bytes |-> <<>>]
    ELSE [nil |-> FALSE, bytes |-> SubSeq(blob.data, 1, blob.len)]

(* C.GoBytes(ptr, len): a new slice of len bytes; for len = 0 an empty,   *)
(* non-nil slice, whatever ptr is.                                         *)
GoBytes(blob) ==
    IF blob.len = 0 THEN [nil |-> FALSE, bytes |-> <<>>]
    ELSE [nil |-> FALSE, bytes |-> SubSeq(blob.data, 1, blob.len)]

----------------------------------------------------------------------------
(* Inputs and engine answers. *)

(* Go strings callers pass.  A path has an embedded 0 byte; the formats    *)
(* are the empty string, "png8", a lone 0 byte, and "j\0p".                *)
Paths == {<<47, 0, 120>>}
Formats == {<<>>, Png8, <<0>>, <<106, 0, 112>>}
Floats == {0, 2}
Sizes == {256}

RenderOptsSet == [Scale : Floats, ScaleFactor : Floats, Format : Formats]

(* The zero RenderOpts value, RenderOpts{}. *)
ZeroOpts == [Scale |-> 0, ScaleFactor |-> 0, Format |-> <<>>]

(* Status codes of the engine's int-returning entry points. *)
Statuses == {0, 1, -1}

(* Values of a context's last-error string. *)
CPtrs == {NullPtr, Ptr(<<101, 0>>)}

(* PNG blobs (mapnik_image_blob_t: ptr and len) the engine hands back. *)
Blobs == {[ptrNull |-> TRUE, len |-> 0, data |-> <<>>],
          [ptrNull |-> FALSE, len |-> 0, data |-> <<>>],
          [ptrNull |-> FALSE, len |-> 2, data |-> <<137, 80>>]}

(* The default search paths (package constants pluginPath, fontPath). *)
pluginPath == <<112>>
fontPath == <<102>>

(* One call into the engine: entry point, handle, string and number arguments. *)
Call(fn, h, strs, nums) == [fn |-> fn, h |-> h, strs |-> strs, nums |-> nums]

(* The record of an operation, before its fields are filled in. *)
NoLast == [op |-> "none", obj |-> 0, h |-> Nil,
           path |-> <<>>, format |-> <<>>, scale |-> 0, scaleFactor |-> 0,
           status |-> 0, calls |-> <<>>,
           errNil |-> TRUE, errText |-> <<>>, outNil |-> TRUE, out |-> <<>>,
           allocs |-> <<>>, frees |-> <<>>]

----------------------------------------------------------------------------
(* The initial state: the process before package initialization. *)

Init ==
    /\ initialized = FALSE
    /\ maps = [i \in MapIds |-> [alloc |-> FALSE, m |-> Nil, freeCalled |-> FALSE]]
    /\ projs = [v \in ProjVars |-> [alloc |-> FALSE, p |-> Nil]]
    /\ nextHandle = 1
    /\ lastErr = [h \in Handles |-> NullPtr]
    /\ relCount = [h \in Handles |-> 0]
    /\ regLog = <<>>
    /\ explicitRegs = 0
    /\ last = NoLast
    /\ pc = <<>>
    /\ loc = <<>>

(* The lowest Map object / Projection variable not yet in use. *)
FreshMap(i) == ~maps[i].alloc /\ \A j \in MapIds : j < i => maps[j].alloc
FreshVar(v) == ~projs[v].alloc /\ \A w \in ProjVars : w < v => projs[w].alloc

(* A foreign buffer an operation holds: the n-th callee and its variable. *)
Buf(n, var) == [callee |-> n, var |-> var]

----------------------------------------------------------------------------
(* Registration of search paths. *)

(* The body shared by RegisterDatasources and RegisterFonts, as the n-th   *)
(* callee of an operation: cs and err are two C copies of path, both freed *)
(* by defers whose argument is evaluated at the defer statement; the       *)
(* engine gets cs and the address of err and may store a string of its own *)
(* in err (replaced).                                                      *)
register(fn, path, replaced, n) ==
    LET cs == CString(path)
        deferred == <<Buf(n, "cs"), Buf(n, "err")>>
        received == IF replaced THEN <<Buf(n, "engine_err")>> ELSE <<>>
    IN  [call |-> Call(fn, Nil, <<CStr(cs)>>, <<>>),
         allocs |-> deferred \o received,
         frees |-> <<deferred[2], deferred[1]>>]

(* func init: registers the default plugin path and the default font path. *)
init ==
    /\ ~initialized
    /\ initialized' = TRUE
    /\ \E r1 \in BOOLEAN, r2 \in BOOLEAN :
         LET d == register("mapnik_register_datasources", pluginPath, r1, 1)
             f == register("mapnik_register_fonts", fontPath, r2, 2)
         IN  /\ regLog' = regLog \o <<d.call, f.call>>
             /\ last' = [NoLast EXCEPT !.op = "init",
                                       !.calls = <<d.call, f.call>>,
                                       !.allocs = d.allocs \o f.allocs,
                                       !.frees = d.frees \o f.frees]
    /\ UNCHANGED <<maps, projs, nextHandle, lastErr, relCount, explicitRegs>>
    /\ UNCHANGED concVars

RegisterDatasources(path) ==
    /\ initialized
    /\ explicitRegs < MaxRegs
    /\ explicitRegs' = explicitRegs + 1
    /\ \E replaced \in BOOLEAN :
         LET d == register("mapnik_register_datasources", path, replaced, 1)
         IN  /\ regLog' = Append(regLog, d.call)
             /\ last' = [NoLast EXCEPT !.op = "RegisterDatasources",
                                       !.path = path,
                                       !.calls = <<d.call>>,
                                       !.allocs = d.allocs,
                                       !.frees = d.frees]
    /\ UNCHANGED <<initialized, maps, projs, nextHandle, lastErr, relCount>>
    /\ UNCHANGED concVars

RegisterFonts(path) ==
    /\ initialized
    /\ explicitRegs < MaxRegs
    /\ explicitRegs' = explicitRegs + 1
    /\ \E replaced \in BOOLEAN :
         LET f == register("mapnik_register_fonts", path, replaced, 1)
         IN  /\ regLog' = Append(regLog, f.call)
             /\ last' = [NoLast EXCEPT !.op = "RegisterFonts",
                                       !.path = path,
                                       !.calls = <<f.call>>,
                                       !.allocs = f.allocs,
                                       !.frees = f.frees]
    /\ UNCHANGED <<initialized, maps, projs, nextHandle, lastErr, relCount>>
    /\ UNCHANGED concVars

(* func Version: "Mapnik " and the engine's version string. *)
Version ==
    /\ initialized
    /\ \E v \in {Ptr(<<51, 0>>)} :
         last' = [NoLast EXCEPT !.op = "Version",
                                !.calls = <<Call("mapnik_version_string", Nil, <<>>, <<>>)>>,
                                !.outNil = FALSE,
                                !.out = VersionPrefix \o GoString(v)]
    /\ UNCHANGED <<initialized, maps, projs, nextHandle, lastErr, relCount,
                   regLog, explicitRegs>>
    /\ UNCHANGED concVars

----------------------------------------------------------------------------
(* Map: creation, error reporting, loading. *)

(* The part of NewMap that allocates: &Map{C.mapnik_map(width, height)}.   *)
NewMapAlloc(width, height) ==
    /\ initialized
    /\ nextHandle <= MaxHandles
    /\ \E i \in MapIds :
         /\ FreshMap(i)
         /\ maps' = [maps EXCEPT ![i] = [alloc |-> TRUE, m |-> nextHandle,
                                         freeCalled |-> FALSE]]
         /\ last' = [NoLast EXCEPT !.op = "NewMap", !.obj = i, !.h = nextHandle,
                                   !.calls = <<Call("mapnik_map", Nil, <<>>,
                                                    <<width, height>>)>>]
    /\ lastErr' = [lastErr EXCEPT ![nextHandle] = NullPtr]
    /\ nextHandle' = nextHandle + 1
    /\ UNCHANGED <<initialized, projs, relCount, explicitRegs>>
    /\ UNCHANGED concVars

(* A faulty NewMap: registers the default paths again before creating. *)
NewMap_registers(width, height) ==
    /\ NewMapAlloc(width, height)
    /\ regLog' = regLog \o
           <<register("mapnik_register_datasources", pluginPath, FALSE, 1).call,
             register("mapnik_register_fonts", fontPath, FALSE, 2).call>>

NewMap(width, height) ==
    /\ NewMapAlloc(width, height)
    /\ UNCHANGED regLog

(* A faulty lastError: the handle comes from a variable shared by all      *)
(* Maps, which holds the handle of the most recent operation.              *)
lastError_shared(eng, m) ==
    LET g == IF last.h \in Handles THEN last.h ELSE m
    IN  [call |-> Call("mapnik_map_last_error", g, <<>>, <<>>),
         text |-> Prefix \o GoString(eng[g])]

(* A faulty lastError: the context's error string from before the call.    *)
lastError_stale(eng, m) ==
    [call |-> Call("mapnik_map_last_error", m, <<>>, <<>>),
     text |-> Prefix \o GoString(lastErr[m])]

(* Map.lastError, with the engine's error strings eng as the failed call   *)
(* left them: asks the engine for the last error of m.m and prefixes it.   *)
lastError(eng, m) ==
    [call |-> Call("mapnik_map_last_error", m, <<>>, <<>>),
     text |-> Prefix \o GoString(eng[m])]

(* The shape shared by Load, LoadString, ZoomAll and RenderToFile: one     *)
(* engine call c on the map, then lastError when its status is not 0.      *)
(* rec is the operation's record so far.                                   *)
StatusOp(i, rec, c) ==
    /\ initialized
    /\ maps[i].alloc
    /\ maps[i].m # Nil
    /\ \E status \in Statuses, e \in CPtrs :
         LET eng == [lastErr EXCEPT ![maps[i].m] = e]
             le == lastError(eng, maps[i].m)
         IN  /\ lastErr' = eng
             /\ last' = IF status # 0
                        THEN [rec EXCEPT !.obj = i, !.h = maps[i].m,
                                         !.status = status,
                                         !.calls = <<c, le.call>>,
                                         !.errNil = FALSE,
                                         !.errText = le.text]
                        ELSE [rec EXCEPT !.obj = i, !.h = maps[i].m,
                                         !.status = status,
                                         !.calls = <<c>>]
    /\ UNCHANGED <<initialized, maps, projs, nextHandle, relCount, regLog,
                   explicitRegs>>
    /\ UNCHANGED concVars

Load(i, stylesheetFile) ==
    LET cs == CString(stylesheetFile)
    IN  StatusOp(i,
                 [NoLast EXCEPT !.op = "Load", !.path = stylesheetFile,
                                !.allocs = <<Buf(1, "cs")>>,
                                !.frees = <<Buf(1, "cs")>>],
                 Call("mapnik_map_load", maps[i].m, <<CStr(cs)>>, <<>>))

LoadString(i, stylesheet) ==
    LET cs == CString(stylesheet)
    IN  StatusOp(i,
                 [NoLast EXCEPT !.op = "LoadString", !.path = stylesheet,
                                !.allocs = <<Buf(1, "cs")>>,
                                !.frees = <<Buf(1, "cs")>>],
                 Call("mapnik_map_load_string", maps[i].m, <<CStr(cs)>>, <<>>))

ZoomAll(i) ==
    StatusOp(i, [NoLast EXCEPT !.op = "ZoomAll"],
             Call("mapnik_map_zoom_all", maps[i].m, <<>>, <<>>))

(* The operations without a result: one engine call on the map. *)
VoidOp(i, rec, c) ==
    /\ initialized
    /\ maps[i].alloc
    /\ maps[i].m # Nil
    /\ last' = [rec EXCEPT !.obj = i, !.h = maps[i].m, !.calls = <<c>>]
    /\ UNCHANGED <<initialized, maps, projs, nextHandle, lastErr, relCount,
                   regLog, explicitRegs>>
    /\ UNCHANGED concVars

(* A faulty Resize: drops the handle. *)
Resize_drops(i, width, height) ==
    /\ initialized
    /\ maps[i].alloc
    /\ maps[i].m # Nil
    /\ maps' = [maps EXCEPT ![i].m = Nil]
    /\ last' = [NoLast EXCEPT !.op = "Resize", !.obj = i, !.h = maps[i].m,
                              !.calls = <<Call("mapnik_map_resize", maps[i].m,
                                               <<>>, <<width, height>>)>>]
    /\ UNCHANGED <<initialized, projs, nextHandle, lastErr, relCount,
                   regLog, explicitRegs>>
    /\ UNCHANGED concVars

Resize(i, width, height) ==
    VoidOp(i, [NoLast EXCEPT !.op = "Resize"],
           Call("mapnik_map_resize", maps[i].m, <<>>, <<width, height>>))

SetSRS(i, srs) ==
    LET cs == CString(srs)
    IN  VoidOp(i, [NoLast EXCEPT !.op = "SetSRS", !.path = srs,
                                 !.allocs = <<Buf(1, "cs")>>,
                                 !.frees = <<Buf(1, "cs")>>],
               Call("mapnik_map_set_srs", maps[i].m, <<CStr(cs)>>, <<>>))

SetBufferSize(i, s) ==
    VoidOp(i, [NoLast EXCEPT !.op = "SetBufferSize"],
           Call("mapnik_map_set_buffer_size", maps[i].m, <<>>, <<s>>))

ZoomToMinMax(i, minx, miny, maxx, maxy) ==
    VoidOp(i, [NoLast EXCEPT !.op = "ZoomToMinMax",
                             !.allocs = <<Buf(1, "bbox")>>,
                             !.frees = <<Buf(1, "bbox")>>],
           Call("mapnik_map_zoom_to_box", maps[i].m, <<>>,
                <<minx, miny, maxx, maxy>>))

(* Map.SRS: the engine's SRS string for the map, copied to a Go string. *)
SRS(i) ==
    /\ initialized
    /\ maps[i].alloc
    /\ maps[i].m # Nil
    /\ \E s \in {Ptr(<<43, 0>>)} :
         last' = [NoLast EXCEPT !.op = "SRS", !.obj = i, !.h = maps[i].m,
                                !.calls = <<Call("mapnik_map_get_srs", maps[i].m,
                                                 <<>>, <<>>)>>,
                                !.outNil = FALSE, !.out = GoString(s)]
    /\ UNCHANGED <<initialized, maps, projs, nextHandle, lastErr, relCount,
                   regLog, explicitRegs>>
    /\ UNCHANGED concVars

----------------------------------------------------------------------------
(* Rendering. *)

(* scaleFactor := opts.ScaleFactor; if scaleFactor == 0.0 { scaleFactor = 1.0 } *)
DefaultScaleFactor(scaleFactor) == IF scaleFactor = 0 THEN 1 ELSE scaleFactor

(* A faulty default: "png8" is never substituted. *)
FormatCString_none(format) == CString(format)

(* The format buffer of RenderToFile: C.CString(opts.Format) when          *)
(* opts.Format != "", else C.CString("png8").                              *)
FormatCString(format) ==
    IF format # <<>> THEN CString(format) ELSE CString(Png8)

RenderToFile(i, path, opts) ==
    LET scaleFactor == DefaultScaleFactor(opts.ScaleFactor)
        format == FormatCString(opts.Format)
        cs == CString(path)
    IN  StatusOp(i,
                 [NoLast EXCEPT !.op = "RenderToFile", !.path = path,
                                !.format = opts.Format, !.scale = opts.Scale,
                                !.scaleFactor = opts.ScaleFactor,
                                !.allocs = <<Buf(1, "format"), Buf(1, "cs")>>,
                                !.frees = <<Buf(1, "cs"), Buf(1, "format")>>],
                 Call("mapnik_map_render_to_file", maps[i].m,
                      <<CStr(cs), CStr(format)>>, <<opts.Scale, scaleFactor>>))

(* A faulty render-to-image call: the format travels with it. *)
RenderToImageCall_format(m, opts, scaleFactor) ==
    Call("mapnik_map_render_to_image", m, <<CStr(FormatCString(opts.Format))>>,
         <<opts.Scale, scaleFactor>>)

(* C.mapnik_map_render_to_image(m.m, C.double(opts.Scale), C.double(scaleFactor)) *)
RenderToImageCall(m, opts, scaleFactor) ==
    Call("mapnik_map_render_to_image", m, <<>>, <<opts.Scale, scaleFactor>>)

(* Map.RenderToMemoryPng.  The engine answers the render with a null or a  *)
(* non-null image and leaves any last error; for an image it answers the   *)
(* encoding with a blob.  A null image is recorded as status 1.           *)
RenderToMemoryPng(i, opts) ==
    /\ initialized
    /\ maps[i].alloc
    /\ maps[i].m # Nil
    /\ \E e \in CPtrs :
         LET scaleFactor == DefaultScaleFactor(opts.ScaleFactor)
             eng == [lastErr EXCEPT ![maps[i].m] = e]
             c == RenderToImageCall(maps[i].m, opts, scaleFactor)
             le == lastError(eng, maps[i].m)
             rec == [NoLast EXCEPT !.op = "RenderToMemoryPng", !.obj = i,
                                   !.h = maps[i].m,
                                   !.format = opts.Format, !.scale = opts.Scale,
                                   !.scaleFactor = opts.ScaleFactor]
         IN  /\ lastErr' = eng
             /\ \/ last' = [rec EXCEPT !.status = 1,
                                       !.calls = <<c, le.call>>,
                                       !.errNil = FALSE,
                                       !.errText = le.text]
                \/ \E b \in Blobs :
                     last' = [rec EXCEPT !.calls = <<c, Call("mapnik_image_to_png_blob",
                                                             Nil, <<>>, <<b.len>>)>>,
                                         !.outNil = GoBytes(b).nil,
                                         !.out = GoBytes(b).bytes,
                                         !.allocs = <<Buf(1, "i"), Buf(1, "b")>>,
                                         !.frees = <<Buf(1, "b"), Buf(1, "i")>>]
    /\ UNCHANGED <<initialized, maps, projs, nextHandle, relCount, regLog,
                   explicitRegs>>
    /\ UNCHANGED concVars

----------------------------------------------------------------------------
(* Release, and projections. *)

(* The handle h has reached a release entry point once more. *)
Released(h) == IF h = Nil THEN relCount
               ELSE [relCount EXCEPT ![h] = relCount[h] + 1]

(* The engine's error strings once the map context h is released: the     *)
(* context is gone, and its error string with it.                          *)
Forgotten(h) == IF h = Nil THEN lastErr ELSE [lastErr EXCEPT ![h] = NullPtr]

(* A faulty Map.Free: releases the projections the callers hold as well. *)
MapFree_cascade(i) ==
    /\ initialized
    /\ maps[i].alloc
    /\ relCount' = [h \in Handles |->
                      IF h = maps[i].m \/ \E v \in ProjVars : projs[v].alloc /\ projs[v].p = h
                      THEN relCount[h] + 1 ELSE relCount[h]]
    /\ maps' = [maps EXCEPT ![i].m = Nil, ![i].freeCalled = TRUE]
    /\ projs' = [v \in ProjVars |-> [projs[v] EXCEPT !.p = Nil]]
    /\ lastErr' = Forgotten(maps[i].m)
    /\ last' = [NoLast EXCEPT !.op = "MapFree", !.obj = i, !.h = maps[i].m,
                              !.calls = <<Call("mapnik_map_free", maps[i].m,
                                               <<>>, <<>>)>>]
    /\ UNCHANGED <<initialized, nextHandle, regLog, explicitRegs>>
    /\ UNCHANGED concVars

(* Map.Free: C.mapnik_map_free(m.m); m.m = nil.  No guard on m.m. *)
MapFree(i) ==
    /\ initialized
    /\ maps[i].alloc
    /\ relCount' = Released(maps[i].m)
    /\ maps' = [maps EXCEPT ![i].m = Nil, ![i].freeCalled = TRUE]
    /\ lastErr' = Forgotten(maps[i].m)
    /\ last' = [NoLast EXCEPT !.op = "MapFree", !.obj = i, !.h = maps[i].m,
                              !.calls = <<Call("mapnik_map_free", maps[i].m,
                                               <<>>, <<>>)>>]
    /\ UNCHANGED <<initialized, projs, nextHandle, regLog, explicitRegs>>
    /\ UNCHANGED concVars

(* Map.Projection: p := Projection{}; p.p = C.mapnik_map_projection(m.m);  *)
(* the value returned lands in a variable v of the caller.                 *)
MapProjection(i) ==
    /\ initialized
    /\ maps[i].alloc
    /\ maps[i].m # Nil
    /\ nextHandle <= MaxHandles
    /\ \E v \in ProjVars :
         /\ FreshVar(v)
         /\ projs' = [projs EXCEPT ![v] = [alloc |-> TRUE, p |-> nextHandle]]
         /\ last' = [NoLast EXCEPT !.op = "Projection", !.obj = i,
                                   !.h = maps[i].m,
                                   !.calls = <<Call("mapnik_map_projection",
                                                    maps[i].m, <<>>, <<>>)>>,
                                   !.outNil = FALSE, !.out = <<nextHandle>>]
    /\ nextHandle' = nextHandle + 1
    /\ UNCHANGED <<initialized, maps, lastErr, relCount, regLog, explicitRegs>>
    /\ UNCHANGED concVars

(* Projection is a struct passed by value: assigning the variable v to a   *)
(* new variable w copies the field p.                                      *)
CopyProjection(v) ==
    /\ initialized
    /\ projs[v].alloc
    /\ \E w \in ProjVars :
         /\ FreshVar(w)
         /\ projs' = [projs EXCEPT ![w] = projs[v]]
         /\ last' = [NoLast EXCEPT !.op = "CopyProjection", !.obj = w,
                                   !.h = projs[v].p]
    /\ UNCHANGED <<initialized, maps, nextHandle, lastErr, relCount, regLog,
                   explicitRegs>>
    /\ UNCHANGED concVars

(* Projection.Free on the variable v (pointer receiver):                   *)
(* C.mapnik_projection_free(p.p); p.p = nil.  No guard on p.p.             *)
ProjectionFree(v) ==
    /\ initialized
    /\ projs[v].alloc
    /\ relCount' = Released(projs[v].p)
    /\ projs' = [projs EXCEPT ![v].p = Nil]
    /\ last' = [NoLast EXCEPT !.op = "ProjectionFree", !.obj = v,
                              !.h = projs[v].p,
                              !.calls = <<Call("mapnik_projection_free",
                                               projs[v].p, <<>>, <<>>)>>]
    /\ UNCHANGED <<initialized, maps, nextHandle, lastErr, regLog, explicitRegs>>
    /\ UNCHANGED concVars

(* Projection.Forward on the variable v (value receiver): the engine       *)
(* transforms the coordinate; callers use only an unreleased handle.       *)
ProjectionForward(v, coord) ==
    /\ initialized
    /\ projs[v].alloc
    /\ projs[v].p # Nil
    /\ relCount[projs[v].p] = 0
    /\ \E c \in {coord, <<coord[2], coord[1]>>} :
         last' = [NoLast EXCEPT !.op = "Forward", !.obj = v, !.h = projs[v].p,
                                !.calls = <<Call("mapnik_projection_forward",
                                                 projs[v].p, <<>>, coord)>>,
                                !.outNil = FALSE, !.out = c]
    /\ UNCHANGED <<initialized, maps, projs, nextHandle, lastErr, relCount,
                   regLog, explicitRegs>>
    /\ UNCHANGED concVars

----------------------------------------------------------------------------
(* The sequential specification: callers invoke one operation at a time. *)

Next ==
    \/ init
    \/ \E path \in Paths : RegisterDatasources(path)
    \/ \E path \in Paths : RegisterFonts(path)
    \/ Version
    \/ \E w \in Sizes, h \in Sizes : NewMap(w, h)
    \/ \E i \in MapIds, f \in Paths : Load(i, f)
    \/ \E i \in MapIds, s \in Paths : LoadString(i, s)
    \/ \E i \in MapIds, w \in Sizes, h \in Sizes : Resize(i, w, h)
    \/ \E i \in MapIds : MapFree(i)
    \/ \E i \in MapIds : SRS(i)
    \/ \E i \in MapIds, s \in Paths : SetSRS(i, s)
    \/ \E i \in MapIds : ZoomAll(i)
    \/ \E i \in MapIds : ZoomToMinMax(i, 0, 0, 1, 1)
    \/ \E i \in MapIds, path \in Paths : RenderToFile(i, path, ZeroOpts)
    \/ \E i \in MapIds : RenderToMemoryPng(i, ZeroOpts)
    \/ \E i \in MapIds : MapProjection(i)
    \/ \E i \in MapIds, s \in Sizes : SetBufferSize(i, s)
    \/ \E v \in ProjVars : CopyProjection(v)
    \/ \E v \in ProjVars : ProjectionFree(v)
    \/ \E v \in ProjVars : ProjectionForward(v, <<1, 2>>)

Spec == Init /\ [][Next]_vars

(* The rendering specification: maps are created, rendered with every     *)
(* RenderOpts value, and released.                                         *)
NextRender ==
    \/ init
    \/ \E w \in Sizes, h \in Sizes : NewMap(w, h)
    \/ \E i \in MapIds, path \in Paths, opts \in RenderOptsSet :
         RenderToFile(i, path, opts)
    \/ \E i \in MapIds, opts \in RenderOptsSet : RenderToMemoryPng(i, opts)
    \/ \E i \in MapIds : MapFree(i)

SpecRender == Init /\ [][NextRender]_vars

----------------------------------------------------------------------------
(* Claims checked under Spec and SpecRender. *)

FallibleOps == {"Load", "LoadString", "ZoomAll", "RenderToFile"}

(* C1: a fallible Map operation returns an error exactly when the engine's *)
(* status was not 0; the error text is then "mapnik: " followed by the     *)
(* last-error string of the operation's own context as the engine holds it *)
(* right after the call, obtained by one last-error call on that handle;   *)
(* with status 0 the result is nil and no last-error call is made.         *)
C1_ErrorIffStatus ==
    last.op \in FallibleOps =>
      /\ last.errNil <=> last.status = 0
      /\ last.h = maps[last.obj].m
      /\ last.calls[1].h = last.h
      /\ last.status # 0 =>
           /\ last.errText = Prefix \o GoString(lastErr[last.h])
           /\ Len(last.calls) = 2
           /\ last.calls[2] = Call("mapnik_map_last_error", last.h, <<>>, <<>>)
      /\ last.status = 0 =>
           /\ last.errText = <<>>
           /\ Len(last.calls) = 1

(* A failed LoadString on one context whose error string differs from the *)
(* one another live context holds.                                         *)
C1_Witness ==
    /\ last.op = "LoadString"
    /\ last.status = -1
    /\ last.errText = Prefix \o <<101>>
    /\ \E j \in MapIds : /\ j # last.obj
                         /\ maps[j].m # Nil
                         /\ lastErr[maps[j].m] # lastErr[last.h]

(* C2 as stated: the engine receives "png8" for an empty opts.Format and   *)
(* opts.Format itself otherwise, 1.0 for a zero opts.ScaleFactor and       *)
(* opts.ScaleFactor otherwise, and opts.Scale as it is.                    *)
C2_FormatUnchanged ==
    last.op = "RenderToFile" =>
      /\ last.calls[1].fn = "mapnik_map_render_to_file"
      /\ last.calls[1].strs[2] = IF last.format = <<>> THEN Png8 ELSE last.format
      /\ last.calls[1].nums = <<last.scale,
                                IF last.scaleFactor = 0 THEN 1 ELSE last.scaleFactor>>

(* C2, amended: the engine receives "png8" for an empty opts.Format and    *)
(* otherwise opts.Format up to its first 0 byte (opts.Format itself when   *)
(* it holds none); the scale factor and the scale as stated.  The call is  *)
(* a function of the path, the scale and the two values after             *)
(* substitution, so an empty format and "png8" make the same call.         *)
C2_DefaultSubstitution ==
    last.op = "RenderToFile" =>
      last.calls[1] =
        Call("mapnik_map_render_to_file", last.h,
             <<CStr(last.path),
               IF last.format = <<>> THEN Png8 ELSE CStr(last.format)>>,
             <<last.scale,
               IF last.scaleFactor = 0 THEN 1 ELSE last.scaleFactor>>)

(* RenderToFile with the zero RenderOpts value has called the engine.      *)
C2_Witness ==
    /\ last.op = "RenderToFile"
    /\ last.format = <<>>
    /\ last.scaleFactor = 0
    /\ last.calls[1].strs[2] = Png8
    /\ last.calls[1].nums[2] = 1

(* C3: RenderToMemoryPng never returns a nil byte slice with a nil error:  *)
(* a null image (recorded as status 1) gives nil bytes and an error, any   *)
(* image gives non-nil bytes and no error, also for an empty blob.         *)
C3_NeverBothNil ==
    last.op = "RenderToMemoryPng" =>
      /\ ~(last.outNil /\ last.errNil)
      /\ last.status # 0 => last.outNil /\ ~last.errNil
      /\ last.status = 0 => ~last.outNil /\ last.errNil

(* RenderToMemoryPng has returned the bytes of an empty blob.              *)
C3_Witness ==
    /\ last.op = "RenderToMemoryPng"
    /\ last.status = 0
    /\ last.calls[2].nums = <<0>>
    /\ ~last.outNil
    /\ last.out = <<>>

(* C4: the engine calls and the result of RenderToMemoryPng are a function *)
(* of the handle, opts.Scale, opts.ScaleFactor and the engine's answers    *)
(* alone, so two calls that differ only in opts.Format make the same calls *)
(* and return the same result; no call on the memory path carries a string *)
(* argument, while the call of RenderToFile carries the format.            *)
C4_FormatIgnoredInMemory ==
    /\ last.op = "RenderToMemoryPng" =>
         /\ last.calls[1] =
              Call("mapnik_map_render_to_image", last.h, <<>>,
                   <<last.scale,
                     IF last.scaleFactor = 0 THEN 1 ELSE last.scaleFactor>>)
         /\ Len(last.calls) = 2
         /\ last.calls[2].strs = <<>>
         /\ last.calls[2].fn = IF last.status = 0 THEN "mapnik_image_to_png_blob"
                               ELSE "mapnik_map_last_error"
         /\ last.status # 0 =>
              last.errText = Prefix \o GoString(lastErr[last.h])
         /\ last.status = 0 => Len(last.out) = last.calls[2].nums[1]
    /\ last.op = "RenderToFile" /\ last.format # <<>> =>
         last.calls[1].strs[2] = CStr(last.format)

(* RenderToMemoryPng has rendered with a format option set.                *)
C4_Witness ==
    /\ last.op = "RenderToMemoryPng"
    /\ last.format = <<106, 0, 112>>
    /\ last.status = 0
    /\ last.out # <<>>

(* C5: before package initialization nothing is registered and no Map      *)
(* exists; after it the engine has received the default plugin path and    *)
(* the default font path once each, first, and beyond them exactly one     *)
(* registration per call of RegisterDatasources or RegisterFonts.          *)
C5_DefaultsRegisteredOnce ==
    /\ ~initialized => regLog = <<>> /\ \A i \in MapIds : ~maps[i].alloc
    /\ initialized =>
         /\ Len(regLog) = 2 + explicitRegs
         /\ regLog[1] = Call("mapnik_register_datasources", Nil,
                             <<CStr(pluginPath)>>, <<>>)
         /\ regLog[2] = Call("mapnik_register_fonts", Nil,
                             <<CStr(fontPath)>>, <<>>)

(* A caller has registered a path, and a Map was created and released.     *)
C5_Witness ==
    /\ initialized
    /\ explicitRegs = 1
    /\ \E i \in MapIds : maps[i].alloc /\ maps[i].freeCalled

(* C6: a Map's handle is non-null from NewMap until Free is called on it;  *)
(* Free passes the handle it finds to the engine's release entry point     *)
(* and leaves the local reference null.                                    *)
C6_HandleNonNullUntilFree ==
    /\ \A i \in MapIds : maps[i].alloc /\ ~maps[i].freeCalled => maps[i].m # Nil
    /\ last.op = "MapFree" =>
         /\ last.calls = <<Call("mapnik_map_free", last.h, <<>>, <<>>)>>
         /\ maps[last.obj].m = Nil
         /\ last.h # Nil => relCount[last.h] >= 1

(* A failed Load on a Map that was never freed, beside a freed one.        *)
C6_Witness ==
    /\ last.op = "Load"
    /\ last.status # 0
    /\ ~maps[last.obj].freeCalled
    /\ \E j \in MapIds : maps[j].alloc /\ maps[j].freeCalled

(* C7: Map.Free changes no Projection variable and releases nothing but    *)
(* the map handle; Projection.Free changes no Map and no other Projection  *)
(* variable and releases nothing but that projection handle; no other      *)
(* operation releases a handle or changes a Projection variable in use.    *)
C7_ProjectionIndependent ==
    [][/\ last'.op = "MapFree" =>
            /\ projs' = projs
            /\ \A h \in Handles : relCount'[h] # relCount[h] => h = last'.h
       /\ last'.op = "ProjectionFree" =>
            /\ maps' = maps
            /\ \A w \in ProjVars : w # last'.obj => projs'[w] = projs[w]
            /\ \A h \in Handles : relCount'[h] # relCount[h] => h = last'.h
       /\ last'.op \notin {"MapFree", "ProjectionFree"} =>
            /\ relCount' = relCount
            /\ \A v \in ProjVars : projs[v].alloc => projs'[v] = projs[v]]_vars

(* The Map is freed while a Projection obtained from it is held unreleased. *)
C7_Witness ==
    /\ last.op = "MapFree"
    /\ last.h # Nil
    /\ \E v \in ProjVars : /\ projs[v].alloc
                           /\ projs[v].p # Nil
                           /\ relCount[projs[v].p] = 0

(* C9: no handle reaches a release entry point of the engine twice.        *)
C9_NoDoubleRelease == \A h \in Handles : relCount[h] <= 1

(* The foreign buffers of seq that equal b. *)
Count(seq, b) == Cardinality({k \in DOMAIN seq : seq[k] = b})

(* C10: every foreign buffer the last operation created or received has    *)
(* been freed exactly once, and nothing else was freed.                    *)
C10_BuffersFreedOnce ==
    /\ \A k \in DOMAIN last.allocs : Count(last.frees, last.allocs[k]) = 1
    /\ \A k \in DOMAIN last.frees : Count(last.allocs, last.frees[k]) = 1

----------------------------------------------------------------------------
(* Concurrent use.  Callers run operations on different Map objects and    *)
(* Projection variables at the same time, and at most one operation on     *)
(* any one of them (the adapter takes no lock; serializing the use of one  *)
(* handle is the callers' duty).  An operation that touches its handle     *)
(* field more than once is split where another caller's step can fall:     *)
(* between the engine call and the last-error call of Load, and between    *)
(* the release call and the nil assignment of Free.                        *)

LocNone == [op |-> "none", status |-> 0, e |-> NullPtr,
            errNil |-> TRUE, errText |-> <<>>]

InitConc ==
    /\ initialized = FALSE
    /\ maps = [i \in MapIds |-> [alloc |-> FALSE, m |-> Nil, freeCalled |-> FALSE]]
    /\ projs = [v \in ProjVars |-> [alloc |-> FALSE, p |-> Nil]]
    /\ nextHandle = 1
    /\ lastErr = [h \in Handles |-> NullPtr]
    /\ relCount = [h \in Handles |-> 0]
    /\ regLog = <<>>
    /\ explicitRegs = 0
    /\ last = NoLast
    /\ pc = [m |-> [i \in MapIds |-> "idle"], p |-> [v \in ProjVars |-> "idle"]]
    /\ loc = [i \in MapIds |-> LocNone]

(* Load up to the status test: C.mapnik_map_load(m.m, cs) != 0.  e is the  *)
(* error string the engine leaves on the context.                          *)
LoadCall(i, stylesheetFile) ==
    /\ initialized
    /\ maps[i].alloc
    /\ maps[i].m # Nil
    /\ pc.m[i] = "idle"
    /\ \E status \in Statuses, e \in CPtrs :
         /\ lastErr' = [lastErr EXCEPT ![maps[i].m] = e]
         /\ loc' = [loc EXCEPT ![i] = [op |-> "Load", status |-> status, e |-> e,
                                       errNil |-> TRUE, errText |-> <<>>]]
         /\ pc' = [pc EXCEPT !.m[i] = IF status # 0 THEN "lastError" ELSE "idle"]
         /\ last' = [NoLast EXCEPT !.op = "Load", !.obj = i, !.h = maps[i].m,
                                   !.status = status,
                                   !.calls = <<Call("mapnik_map_load", maps[i].m,
                                                    <<CStr(CString(stylesheetFile))>>,
                                                    <<>>)>>]
    /\ UNCHANGED <<initialized, maps, projs, nextHandle, relCount, regLog,
                   explicitRegs>>

(* Load after a status that is not 0: return m.lastError().                *)
LoadLastError(i) ==
    /\ pc.m[i] = "lastError"
    /\ LET le == lastError(lastErr, maps[i].m)
       IN  /\ loc' = [loc EXCEPT ![i].errNil = FALSE, ![i].errText = le.text]
           /\ last' = [NoLast EXCEPT !.op = "Load", !.obj = i, !.h = maps[i].m,
                                     !.calls = <<le.call>>]
    /\ pc' = [pc EXCEPT !.m[i] = "idle"]
    /\ UNCHANGED <<initialized, maps, projs, nextHandle, lastErr, relCount,
                   regLog, explicitRegs>>

(* Map.Free, first statement: C.mapnik_map_free(m.m).                      *)
MapFreeCall(i) ==
    /\ initialized
    /\ maps[i].alloc
    /\ pc.m[i] = "idle"
    /\ relCount' = Released(maps[i].m)
    /\ lastErr' = Forgotten(maps[i].m)
    /\ maps' = [maps EXCEPT ![i].freeCalled = TRUE]
    /\ pc' = [pc EXCEPT !.m[i] = "freed"]
    /\ last' = [NoLast EXCEPT !.op = "MapFree", !.obj = i, !.h = maps[i].m,
                              !.calls = <<Call("mapnik_map_free", maps[i].m,
                                               <<>>, <<>>)>>]
    /\ UNCHANGED <<initialized, projs, nextHandle, regLog, explicitRegs, loc>>

(* Map.Free, second statement: m.m = nil.                                  *)
MapFreeNil(i) ==
    /\ pc.m[i] = "freed"
    /\ maps' = [maps EXCEPT ![i].m = Nil]
    /\ pc' = [pc EXCEPT !.m[i] = "idle"]
    /\ last' = [NoLast EXCEPT !.op = "MapFree", !.obj = i, !.h = maps[i].m]
    /\ UNCHANGED <<initialized, projs, nextHandle, lastErr, relCount, regLog,
                   explicitRegs, loc>>

(* Projection.Free, first statement: C.mapnik_projection_free(p.p).        *)
ProjectionFreeCall(v) ==
    /\ initialized
    /\ projs[v].alloc
    /\ pc.p[v] = "idle"
    /\ relCount' = Released(projs[v].p)
    /\ pc' = [pc EXCEPT !.p[v] = "freed"]
    /\ last' = [NoLast EXCEPT !.op = "ProjectionFree", !.obj = v,
                              !.h = projs[v].p,
                              !.calls = <<Call("mapnik_projection_free",
                                               projs[v].p, <<>>, <<>>)>>]
    /\ UNCHANGED <<initialized, maps, projs, nextHandle, lastErr, regLog,
                   explicitRegs, loc>>

(* Projection.Free, second statement: p.p = nil.                           *)
ProjectionFreeNil(v) ==
    /\ pc.p[v] = "freed"
    /\ projs' = [projs EXCEPT ![v].p = Nil]
    /\ pc' = [pc EXCEPT !.p[v] = "idle"]
    /\ last' = [NoLast EXCEPT !.op = "ProjectionFree", !.obj = v,
                              !.h = projs[v].p]
    /\ UNCHANGED <<initialized, maps, nextHandle, lastErr, relCount, regLog,
                   explicitRegs, loc>>

NextConc ==
    \/ init
    \/ \E w \in Sizes, h \in Sizes : NewMap(w, h)
    \/ \E i \in MapIds, f \in Paths : LoadCall(i, f)
    \/ \E i \in MapIds : LoadLastError(i)
    \/ \E i \in MapIds : MapFreeCall(i)
    \/ \E i \in MapIds : MapFreeNil(i)
    \/ \E i \in MapIds : pc.m[i] = "idle" /\ MapProjection(i)
    \/ \E v \in ProjVars : ProjectionFreeCall(v)
    \/ \E v \in ProjVars : ProjectionFreeNil(v)
    \/ \E v \in ProjVars : pc.p[v] = "idle" /\ ProjectionForward(v, <<1, 2>>)

SpecConc == InitConc /\ [][NextConc]_vars

MapOps == {"NewMap", "Load", "MapFree", "Projection"}
ProjOps == {"ProjectionFree", "Forward"}

(* C8: under any interleaving of operations on different handles, a step   *)
(* of an operation changes only the Map object or Projection variable it   *)
(* runs on (and the fresh variable that receives a new Projection), every  *)
(* engine call of the step carries the handle of that object, and the      *)
(* outcome of each operation is the one it has alone: Load returns an      *)
(* error exactly for a status other than 0, with the error string the      *)
(* engine left for that very call, and a Map keeps its handle until its    *)
(* own Free, which leaves it nil.                                          *)
C8_HandlesIndependent ==
    /\ [](\A i \in MapIds :
            /\ maps[i].alloc /\ ~maps[i].freeCalled => maps[i].m # Nil
            /\ maps[i].freeCalled /\ pc.m[i] = "idle" => maps[i].m = Nil
            /\ loc[i].op = "Load" /\ pc.m[i] = "idle" =>
                 /\ loc[i].errNil <=> loc[i].status = 0
                 /\ loc[i].status # 0 =>
                      loc[i].errText = Prefix \o GoString(loc[i].e))
    /\ [][/\ \A i \in MapIds :
               maps'[i] # maps[i] \/ loc'[i] # loc[i] \/ pc'.m[i] # pc.m[i]
                 => last'.obj = i /\ last'.op \in MapOps \ {"Projection"}
          /\ \A v \in ProjVars :
               projs'[v] # projs[v] \/ pc'.p[v] # pc.p[v]
                 => \/ last'.obj = v /\ last'.op = "ProjectionFree"
                    \/ ~projs[v].alloc /\ last'.op = "Projection"
          /\ \A k \in DOMAIN last'.calls :
               /\ last'.op \in MapOps => last'.calls[k].h = maps[last'.obj].m
               /\ last'.op \in ProjOps => last'.calls[k].h = projs[last'.obj].p
          /\ \A h \in Handles :
               lastErr'[h] # lastErr[h] \/ relCount'[h] # relCount[h]
                 => h = last'.h]_vars

(* Two Loads on two Maps are in flight at once, each past its engine call, *)
(* with different error strings left on the two contexts.                  *)
C8_Witness ==
    \E i \in MapIds, j \in MapIds :
      /\ i # j
      /\ pc.m[i] = "lastError"
      /\ pc.m[j] = "lastError"
      /\ loc[i].e # loc[j].e

====
